---------------------------- MODULE Spec2Model ----------------------------
(***************************************************************************)
(* A model of src/app.py: a Flask site that logs every visit to a Visitor  *)
(* table, stores contact-form submissions in a ContactMessage table and    *)
(* serves read-only admin aggregates over both.                            *)
(*                                                                         *)
(* Conventions                                                             *)
(*   - A Python value that may be None is a sequence of length 0 (None) or *)
(*     1 (the value): None == <<>>, Some(v) == <<v>>.                      *)
(*   - Header values, IP addresses and user-agent strings are sequences of *)
(*     one-character strings, so that split(',') and the `in` substring    *)
(*     test are computed character by character.  Paths, action tags and   *)
(*     form fields are TLA+ strings.                                       *)
(*   - str(uuid.uuid4()) is the n-th fresh identifier (collision-free).    *)
(*   - datetime.utcnow() is read from a clock that advances on each insert.*)
(***************************************************************************)
EXTENDS Naturals, Integers, Sequences, FiniteSets

VARIABLES
    visitors,    \* table Visitor: the rows in insertion order
    messages,    \* table ContactMessage: the rows in insertion order
    session,     \* the cookie-backed session of each client: its session_id, or NoSession
    uuidCount,   \* how many uuid4 values have been drawn
    clock,       \* the storage clock (datetime.utcnow)
    nreq,        \* requests handled so far
    req,         \* the request handled last
    io,          \* the storage outcomes met while handling it
    resp,        \* the response returned for it
    arg,         \* pure-function specifications: the input
    ret          \* pure-function specifications: None, or Some(result)

vars == <<visitors, messages, session, uuidCount, clock, nreq, req, io, resp, arg, ret>>

---------------------------------------------------------------------------
(* Bounds of the model *)

MaxRequests == 2     \* requests handled in one behaviour
MaxHeaderLen == 3    \* characters of a forwarded-for header
MaxTokens == 2       \* vocabulary words concatenated into a user-agent string

---------------------------------------------------------------------------
(* Python values *)

None == <<>>
Some(v) == <<v>>
Value(o) == o[1]

Min(S) == CHOOSE m \in S : \A n \in S : m <= n

\* all sequences over S of length at most n
RECURSIVE SeqsUpTo(_, _)
SeqsUpTo(S, n) ==
    IF n = 0 THEN {<<>>}
    ELSE LET shorter == SeqsUpTo(S, n - 1)
         IN  shorter \cup {Append(s, c) : s \in shorter, c \in S}

\* the concatenation of a sequence of sequences
RECURSIVE Flatten(_)
Flatten(ss) == IF ss = <<>> THEN <<>> ELSE Head(ss) \o Flatten(Tail(ss))

\* truthiness of environ.get(key): None and '' are both falsy
Truthy(o) == o # None /\ Value(o) # <<>>

\* s.split(sep)[0]: the characters before the first sep, or all of s
SplitFirst(s, sep) ==
    LET at == {i \in 1..Len(s) : s[i] = sep}
    IN  IF at = {} THEN s ELSE SubSeq(s, 1, Min(at) - 1)

\* pat in s
Contains(s, pat) ==
    \E i \in 0..(Len(s) - Len(pat)) : SubSeq(s, i + 1, i + Len(pat)) = pat

\* one character of str.lower()
LowerChar(c) ==
    CASE c = "A" -> "a" [] c = "C" -> "c" [] c = "D" -> "d" [] c = "E" -> "e"
      [] c = "F" -> "f" [] c = "H" -> "h" [] c = "I" -> "i" [] c = "L" -> "l"
      [] c = "M" -> "m" [] c = "O" -> "o" [] c = "P" -> "p" [] c = "R" -> "r"
      [] c = "S" -> "s" [] c = "W" -> "w" [] c = "X" -> "x"
      [] OTHER -> c

Lower(s) == [i \in 1..Len(s) |-> LowerChar(s[i])]

---------------------------------------------------------------------------
(* get_client_ip *)

UNKNOWN_IP == <<"U", "n", "k", "n", "o", "w", "n">>

\* a plausible slip: the last hop of the forwarded-for chain instead of the first
get_client_ip_last(environ) ==
    IF Truthy(environ.HTTP_X_FORWARDED_FOR)
    THEN LET s == Value(environ.HTTP_X_FORWARDED_FOR)
             at == {i \in 1..Len(s) : s[i] = ","}
         IN  IF at = {} THEN s
             ELSE SubSeq(s, (CHOOSE m \in at : \A n \in at : n <= m) + 1, Len(s))
    ELSE IF Truthy(environ.HTTP_X_REAL_IP)
    THEN Value(environ.HTTP_X_REAL_IP)
    ELSE IF environ.REMOTE_ADDR # None THEN Value(environ.REMOTE_ADDR)
    ELSE UNKNOWN_IP

get_client_ip(environ) ==
    IF Truthy(environ.HTTP_X_FORWARDED_FOR)
    THEN SplitFirst(Value(environ.HTTP_X_FORWARDED_FOR), ",")
    ELSE IF Truthy(environ.HTTP_X_REAL_IP)
    THEN Value(environ.HTTP_X_REAL_IP)
    ELSE IF environ.REMOTE_ADDR # None THEN Value(environ.REMOTE_ADDR)
    ELSE UNKNOWN_IP

---------------------------------------------------------------------------
(* parse_user_agent *)

kw_chrome == <<"c", "h", "r", "o", "m", "e">>
kw_firefox == <<"f", "i", "r", "e", "f", "o", "x">>
kw_safari == <<"s", "a", "f", "a", "r", "i">>
kw_edge == <<"e", "d", "g", "e">>
kw_windows == <<"w", "i", "n", "d", "o", "w", "s">>
kw_mac == <<"m", "a", "c">>
kw_linux == <<"l", "i", "n", "u", "x">>
kw_android == <<"a", "n", "d", "r", "o", "i", "d">>
kw_iphone == <<"i", "p", "h", "o", "n", "e">>
kw_ipad == <<"i", "p", "a", "d">>

\* a plausible slip: 'safari' tested before 'chrome'
parse_user_agent_safari_first(user_agent_string) ==
    LET ua == IF user_agent_string # None /\ Value(user_agent_string) # <<>>
              THEN Lower(Value(user_agent_string)) ELSE <<>>
        browser == IF Contains(ua, kw_safari) THEN "Safari"
                   ELSE IF Contains(ua, kw_chrome) THEN "Chrome"
                   ELSE IF Contains(ua, kw_firefox) THEN "Firefox"
                   ELSE IF Contains(ua, kw_edge) THEN "Edge"
                   ELSE "Unknown"
        platform == IF Contains(ua, kw_windows) THEN "Windows"
                    ELSE IF Contains(ua, kw_mac) THEN "macOS"
                    ELSE IF Contains(ua, kw_linux) THEN "Linux"
                    ELSE IF Contains(ua, kw_android) THEN "Android"
                    ELSE IF Contains(ua, kw_iphone) \/ Contains(ua, kw_ipad) THEN "iOS"
                    ELSE "Unknown"
    IN  [browser |-> browser, platform |-> platform]

parse_user_agent(user_agent_string) ==
    LET ua == IF user_agent_string # None /\ Value(user_agent_string) # <<>>
              THEN Lower(Value(user_agent_string)) ELSE <<>>
        browser == IF Contains(ua, kw_chrome) THEN "Chrome"
                   ELSE IF Contains(ua, kw_firefox) THEN "Firefox"
                   ELSE IF Contains(ua, kw_safari) THEN "Safari"
                   ELSE IF Contains(ua, kw_edge) THEN "Edge"
                   ELSE "Unknown"
        platform == IF Contains(ua, kw_windows) THEN "Windows"
                    ELSE IF Contains(ua, kw_mac) THEN "macOS"
                    ELSE IF Contains(ua, kw_linux) THEN "Linux"
                    ELSE IF Contains(ua, kw_android) THEN "Android"
                    ELSE IF Contains(ua, kw_iphone) \/ Contains(ua, kw_ipad) THEN "iOS"
                    ELSE "Unknown"
    IN  [browser |-> browser, platform |-> platform]

---------------------------------------------------------------------------
(* The tables, the session store and the requests *)

NoSession == 0                  \* 'session_id' not in session
uuid4(n) == n + 1               \* str(uuid.uuid4()): the (n+1)-th fresh identifier
isoformat(t) == <<"iso", t>>    \* datetime.isoformat(): the timestamp as text

Clients == {"c1", "c2"}

STATIC_PREFIX == "/static"
LOGS_PATH == "/admin/logs"
LOG_LIMIT == 100

\* what follows the static prefix in the paths of the model
PathSuffixes == {"", "/style.css", "foo"}
StartsWith(path, prefix) == \E s \in PathSuffixes : path = prefix \o s

\* user-agent strings of the model's clients
ua_chrome_safari ==
    <<"C", "h", "r", "o", "m", "e">> \o <<" ">> \o <<"S", "a", "f", "a", "r", "i">>
ua_ipad == <<"i", "P", "a", "d">>

\* the model's request sources: a client (its cookie jar), the WSGI environ of
\* its connection and its headers.  "desk" and "phone" are one client at two
\* addresses; "proxy" is another client whose forwarded-for chain starts with the
\* address of "desk"
ProfileNames == {"desk", "proxy", "phone"}

Profile(k) ==
    CASE k = "desk" ->
           [client |-> "c1",
            environ |-> [HTTP_X_FORWARDED_FOR |-> None, HTTP_X_REAL_IP |-> None,
                         REMOTE_ADDR |-> Some(<<"1">>)],
            user_agent |-> Some(ua_chrome_safari), referrer |-> None]
      [] k = "proxy" ->
           [client |-> "c2",
            environ |-> [HTTP_X_FORWARDED_FOR |-> Some(<<"1", ",", "2">>),
                         HTTP_X_REAL_IP |-> Some(<<"3">>),
                         REMOTE_ADDR |-> Some(<<"9">>)],
            user_agent |-> None, referrer |-> Some("/")]
      [] k = "phone" ->
           [client |-> "c1",
            environ |-> [HTTP_X_FORWARDED_FOR |-> None, HTTP_X_REAL_IP |-> Some(<<"3">>),
                         REMOTE_ADDR |-> Some(<<"9">>)],
            user_agent |-> Some(ua_ipad), referrer |-> None]

\* the contact forms of the model: none (a GET), two complete ones, one without
\* a name, one without a message
FormNames == {"ann", "bob", "no name", "no message"}

Form(k) ==
    CASE k = "none" -> [name |-> None, email |-> None, message |-> None]
      [] k = "ann" -> [name |-> Some("ann"), email |-> Some("a@x"), message |-> Some("hi")]
      [] k = "bob" -> [name |-> Some("bob"), email |-> Some("b@x"), message |-> Some("")]
      [] k = "no name" -> [name |-> None, email |-> Some("a@x"), message |-> Some("hi")]
      [] k = "no message" -> [name |-> Some("ann"), email |-> Some("a@x"), message |-> None]

Request(k, method, path, form) ==
    LET p == Profile(k)
    IN  [client |-> p.client, method |-> method, path |-> path,
         environ |-> p.environ, user_agent |-> p.user_agent,
         referrer |-> p.referrer, host |-> "site", form |-> Form(form)]

\* the storage outcomes of one request: whether the middleware's insert, the
\* ContactMessage commit, the view's own log_visitor insert and the view's
\* queries succeed
Outcome(mw, commit, log, query) ==
    [mw |-> mw, commit |-> commit, log |-> log, query |-> query]

NoRequest ==
    [client |-> "", method |-> "", path |-> "",
     environ |-> [HTTP_X_FORWARDED_FOR |-> None, HTTP_X_REAL_IP |-> None, REMOTE_ADDR |-> None],
     user_agent |-> None, referrer |-> None, host |-> "",
     form |-> [name |-> None, email |-> None, message |-> None]]

NoResponse == [status |-> 0, kind |-> "none"]

\* the state a request handler reads and writes
CurrentState ==
    [visitors |-> visitors, messages |-> messages, session |-> session,
     uuidCount |-> uuidCount, clock |-> clock]

---------------------------------------------------------------------------
(* log_visitor and the before_request middleware *)

\* the Visitor object log_visitor builds: the session's session_id (a fresh
\* uuid when the session has none), the client address, the headers and the
\* classified user agent; country and city are never set
VisitorRow(st, rq, page, action) ==
    LET ip == get_client_ip(rq.environ)
        user_agent == IF rq.user_agent = None THEN <<>> ELSE Value(rq.user_agent)
        parsed == parse_user_agent(Some(user_agent))
    IN  [id |-> Len(st.visitors) + 1,
         session_id |-> IF st.session[rq.client] # NoSession
                        THEN st.session[rq.client]
                        ELSE uuid4(st.uuidCount),
         ip_address |-> ip, user_agent |-> user_agent,
         timestamp |-> st.clock, page |-> page, action |-> action,
         referrer |-> rq.referrer, host |-> rq.host, method |-> rq.method,
         platform |-> parsed.platform, browser |-> parsed.browser,
         country |-> None, city |-> None]

\* a plausible slip: the freshly drawn uuid is used although the session has one
log_visitor_fresh_uuid(st, rq, page, action, ok) ==
    IF ok
    THEN [st EXCEPT !.visitors = Append(@, [VisitorRow(st, rq, page, action)
                                              EXCEPT !.session_id = uuid4(st.uuidCount)]),
                    !.uuidCount = @ + 1, !.clock = @ + 1]
    ELSE [st EXCEPT !.uuidCount = @ + 1]

\* a plausible slip: the action tag is dropped and the column default is stored
log_visitor_default_action(st, rq, page, action, ok) ==
    IF ok
    THEN [st EXCEPT !.visitors = Append(@, VisitorRow(st, rq, page, "VISIT")),
                    !.uuidCount = @ + 1, !.clock = @ + 1]
    ELSE [st EXCEPT !.uuidCount = @ + 1]

\* a plausible slip: the failure is swallowed without the rollback, and the
\* pending row reaches the table with the next flush
log_visitor_no_rollback(st, rq, page, action, ok) ==
    [st EXCEPT !.visitors = Append(@, VisitorRow(st, rq, page, action)),
               !.uuidCount = @ + 1, !.clock = @ + 1]

\* log_visitor(page, action): the row is added and committed; ok = FALSE is a
\* commit that raises: the except branch logs the error and rolls back.  The
\* default of session.get is evaluated eagerly, so a uuid is drawn either way.
log_visitor(st, rq, page, action, ok) ==
    IF ok
    THEN [st EXCEPT !.visitors = Append(@, VisitorRow(st, rq, page, action)),
                    !.uuidCount = @ + 1, !.clock = @ + 1]
    ELSE [st EXCEPT !.uuidCount = @ + 1]

\* a plausible slip: the exclusion of static assets and of the log endpoint is lost
before_request_log_all(st, rq, ok) ==
    LET st1 == IF st.session[rq.client] = NoSession
               THEN [st EXCEPT !.session[rq.client] = uuid4(st.uuidCount),
                               !.uuidCount = @ + 1]
               ELSE st
    IN  log_visitor(st1, rq, rq.path, "VISIT", ok)

before_request(st, rq, ok) ==
    LET st1 == IF st.session[rq.client] = NoSession
               THEN [st EXCEPT !.session[rq.client] = uuid4(st.uuidCount),
                               !.uuidCount = @ + 1]
               ELSE st
    IN  IF ~StartsWith(rq.path, STATIC_PREFIX) /\ rq.path # LOGS_PATH
        THEN log_visitor(st1, rq, rq.path, "VISIT", ok)
        ELSE st1

---------------------------------------------------------------------------
(* Queries *)

\* the index of the newest row of a non-empty table (the first one on a tie)
Newest(rows) ==
    CHOOSE i \in 1..Len(rows) :
        /\ \A j \in 1..Len(rows) : rows[j].timestamp <= rows[i].timestamp
        /\ \A j \in 1..(i - 1) : rows[j].timestamp < rows[i].timestamp

Without(rows, i) == SubSeq(rows, 1, i - 1) \o SubSeq(rows, i + 1, Len(rows))

\* query.order_by(timestamp.desc()).all()
RECURSIVE OrderByTimestampDesc(_)
OrderByTimestampDesc(rows) ==
    IF rows = <<>> THEN <<>>
    ELSE LET i == Newest(rows)
         IN  <<rows[i]>> \o OrderByTimestampDesc(Without(rows, i))

\* .limit(n)
Limit(rows, n) == SubSeq(rows, 1, IF Len(rows) < n THEN Len(rows) ELSE n)

\* a plausible slip: distinct sessions counted instead of distinct addresses
CountDistinctIp_by_session(rows) ==
    Cardinality({rows[i].session_id : i \in 1..Len(rows)})

\* db.session.query(Visitor.ip_address).distinct().count()
CountDistinctIp(rows) == Cardinality({rows[i].ip_address : i \in 1..Len(rows)})

Page(template) == [status |-> 200, kind |-> "html", template |-> template]
Json(body) == [status |-> 200, kind |-> "json", body |-> body]

---------------------------------------------------------------------------
(* The view functions: each maps the state left by before_request, the     *)
(* request and the storage outcomes to the new state and the response.     *)

index(st, rq, o) == [st |-> st, resp |-> Page("index.html")]

\* a plausible slip: the view logs nothing of its own
portfolio_no_log(st, rq, o) == [st |-> st, resp |-> Page("portfolio.html")]

portfolio(st, rq, o) ==
    [st |-> log_visitor(st, rq, "/portfolio", "PORTFOLIO_VIEW", o.log),
     resp |-> Page("portfolio.html")]

about(st, rq, o) ==
    [st |-> log_visitor(st, rq, "/about", "ABOUT_VIEW", o.log),
     resp |-> Page("about.html")]

contact(st, rq, o) ==
    [st |-> log_visitor(st, rq, "/contact", "CONTACT_VIEW", o.log),
     resp |-> Page("contact.html")]

ContactPayload(status) ==
    Json([status |-> status,
          message |-> IF status = "success" THEN "Message envoye avec succes!"
                      ELSE "Erreur lors de l'envoi"])

\* the NOT NULL columns of ContactMessage: a form without one of the fields
\* makes the commit raise
FormComplete(form) == form.name # None /\ form.email # None /\ form.message # None

CommitSucceeds(form, o) == o.commit /\ FormComplete(form)

\* a plausible slip: the visit is logged before the commit is attempted
contact_submit_log_first(st, rq, o) ==
    LET name == rq.form.name
        tag == "CONTACT_SUBMIT:" \o (IF name = None THEN "None" ELSE Value(name))
        st1 == log_visitor(st, rq, "/contact", tag, o.log)
    IN  IF CommitSucceeds(rq.form, o)
        THEN [st |-> [st1 EXCEPT
                        !.messages = Append(@, [id |-> Len(st1.messages) + 1,
                                                name |-> Value(name),
                                                email |-> Value(rq.form.email),
                                                message |-> Value(rq.form.message),
                                                ip_address |-> get_client_ip(rq.environ),
                                                timestamp |-> st1.clock,
                                                read |-> FALSE]),
                        !.clock = @ + 1],
              resp |-> ContactPayload("success")]
        ELSE [st |-> st1, resp |-> ContactPayload("error")]

\* POST /contact: the ContactMessage row is committed, then the visit is logged;
\* a commit that raises is answered by the error payload, and the pending row
\* goes with the request's storage session
contact_submit(st, rq, o) ==
    LET name == rq.form.name
        email == rq.form.email
        message == rq.form.message
    IN  IF CommitSucceeds(rq.form, o)
        THEN LET contact_msg == [id |-> Len(st.messages) + 1,
                                 name |-> Value(name),
                                 email |-> Value(email),
                                 message |-> Value(message),
                                 ip_address |-> get_client_ip(rq.environ),
                                 timestamp |-> st.clock,
                                 read |-> FALSE]
                 st1 == [st EXCEPT !.messages = Append(@, contact_msg),
                                   !.clock = @ + 1]
             IN  [st |-> log_visitor(st1, rq, "/contact",
                                     "CONTACT_SUBMIT:" \o Value(name), o.log),
                  resp |-> ContactPayload("success")]
        ELSE [st |-> st, resp |-> ContactPayload("error")]

admin(st, rq, o) == [st |-> st, resp |-> Page("admin.html")]

LogEntry(v) ==
    [id |-> v.id, session_id |-> v.session_id, ip |-> v.ip_address,
     user_agent |-> v.user_agent, timestamp |-> isoformat(v.timestamp),
     page |-> v.page, action |-> v.action, referrer |-> v.referrer,
     host |-> v.host, method |-> v.method, platform |-> v.platform,
     browser |-> v.browser]

\* GET /admin/logs: the LOG_LIMIT newest rows and the two totals
admin_logs(st, rq, o) ==
    IF o.query
    THEN LET rows == Limit(OrderByTimestampDesc(st.visitors), LOG_LIMIT)
         IN  [st |-> st,
              resp |-> Json([logs |-> [i \in 1..Len(rows) |-> LogEntry(rows[i])],
                             total |-> Len(st.visitors),
                             unique_visitors |-> CountDistinctIp(st.visitors)])]
    ELSE [st |-> st,
          resp |-> Json([error |-> "Erreur lors de la recuperation des logs"])]

\* GET /admin/stats: the three totals (the grouped lists top_pages, top_browsers
\* and hourly_visits, whose order on ties is the storage engine's, are not part
\* of the modelled payload)
admin_stats(st, rq, o) ==
    IF o.query
    THEN [st |-> st,
          resp |-> Json([total_visits |-> Len(st.visitors),
                         unique_visitors |-> CountDistinctIp(st.visitors),
                         total_messages |-> Len(st.messages)])]
    ELSE [st |-> st,
          resp |-> Json([error |-> "Erreur lors de la recuperation des statistiques"])]

MessageEntry(m) ==
    [id |-> m.id, name |-> m.name, email |-> m.email, message |-> m.message,
     ip_address |-> m.ip_address, timestamp |-> isoformat(m.timestamp),
     read |-> m.read]

admin_messages(st, rq, o) ==
    IF o.query
    THEN LET rows == OrderByTimestampDesc(st.messages)
         IN  [st |-> st,
              resp |-> Json([messages |->
                               [i \in 1..Len(rows) |-> MessageEntry(rows[i])]])]
    ELSE [st |-> st,
          resp |-> Json([error |-> "Erreur lors de la recuperation des messages"])]

\* the keys of one exported row, in the order the dict is built
EXPORT_FIELDS ==
    <<"id", "session_id", "ip_address", "user_agent", "timestamp", "page",
      "action", "referrer", "host", "method", "platform", "browser">>

ExportEntry(v) ==
    [id |-> v.id, session_id |-> v.session_id, ip_address |-> v.ip_address,
     user_agent |-> v.user_agent, timestamp |-> isoformat(v.timestamp),
     page |-> v.page, action |-> v.action, referrer |-> v.referrer,
     host |-> v.host, method |-> v.method, platform |-> v.platform,
     browser |-> v.browser]

\* csv.DictWriter(output, fieldnames).writeheader(); writerows(data): the lines
\* written, each the sequence of its cells
WriteCsv(fieldnames, data) ==
    <<fieldnames>> \o
    [i \in 1..Len(data) |-> [j \in 1..Len(fieldnames) |-> data[i][fieldnames[j]]]]

\* a plausible slip: data[0].keys() without the guard for an empty table
export_logs_unguarded(st, rq, o) ==
    IF o.query /\ st.visitors # <<>>
    THEN LET rows == OrderByTimestampDesc(st.visitors)
             data == [i \in 1..Len(rows) |-> ExportEntry(rows[i])]
         IN  [st |-> st,
              resp |-> [status |-> 200, kind |-> "csv",
                        lines |-> WriteCsv(EXPORT_FIELDS, data)]]
    ELSE [st |-> st, resp |-> Json([error |-> "Erreur lors de l'export"])]

\* GET /admin/export: every Visitor row as CSV (the attachment's file name, taken
\* from the wall clock, is not part of the modelled response)
export_logs(st, rq, o) ==
    IF o.query
    THEN LET rows == OrderByTimestampDesc(st.visitors)
             data == [i \in 1..Len(rows) |-> ExportEntry(rows[i])]
             fieldnames == IF data # <<>> THEN EXPORT_FIELDS ELSE <<>>
         IN  [st |-> st,
              resp |-> [status |-> 200, kind |-> "csv",
                        lines |-> WriteCsv(fieldnames, data)]]
    ELSE [st |-> st, resp |-> Json([error |-> "Erreur lors de l'export"])]

\* Flask's own answers: a file under /static, and 404 for a path no rule matches
send_static_file(st, rq, o) == [st |-> st, resp |-> [status |-> 200, kind |-> "static"]]
not_found(st, rq, o) == [st |-> st, resp |-> [status |-> 404, kind |-> "error"]]

\* the URL map
view(st, rq, o) ==
    CASE rq.method = "GET" /\ rq.path = "/" -> index(st, rq, o)
      [] rq.method = "GET" /\ rq.path = "/portfolio" -> portfolio(st, rq, o)
      [] rq.method = "GET" /\ rq.path = "/about" -> about(st, rq, o)
      [] rq.method = "GET" /\ rq.path = "/contact" -> contact(st, rq, o)
      [] rq.method = "POST" /\ rq.path = "/contact" -> contact_submit(st, rq, o)
      [] rq.method = "GET" /\ rq.path = "/admin" -> admin(st, rq, o)
      [] rq.method = "GET" /\ rq.path = "/admin/logs" -> admin_logs(st, rq, o)
      [] rq.method = "GET" /\ rq.path = "/admin/stats" -> admin_stats(st, rq, o)
      [] rq.method = "GET" /\ rq.path = "/admin/messages" -> admin_messages(st, rq, o)
      [] rq.method = "GET" /\ rq.path = "/admin/export" -> export_logs(st, rq, o)
      [] rq.method = "GET" /\ rq.path = "/static/style.css" -> send_static_file(st, rq, o)
      [] OTHER -> not_found(st, rq, o)

---------------------------------------------------------------------------
(* The server: one action per route *)

Init ==
    /\ visitors = <<>>
    /\ messages = <<>>
    /\ session = [c \in Clients |-> NoSession]
    /\ uuidCount = 0
    /\ clock = 0
    /\ nreq = 0
    /\ req = NoRequest
    /\ io = Outcome(TRUE, TRUE, TRUE, TRUE)
    /\ resp = NoResponse
    /\ arg = None
    /\ ret = None

\* the request rq is handled under the storage outcomes o: the before_request
\* middleware, then the view; the session is saved and the response returned
Handle(rq, o) ==
    \E st1 \in {before_request(CurrentState, rq, o.mw)} :
        \E r \in {view(st1, rq, o)} :
            /\ visitors' = r.st.visitors
            /\ messages' = r.st.messages
            /\ session' = r.st.session
            /\ uuidCount' = r.st.uuidCount
            /\ clock' = r.st.clock
            /\ resp' = r.resp
            /\ nreq' = nreq + 1
            /\ req' = rq
            /\ io' = o
            /\ UNCHANGED <<arg, ret>>

Serve(k, method, path, form, mw, commit, log, query) ==
    \E rq \in {Request(k, method, path, form)}, o \in {Outcome(mw, commit, log, query)} :
        Handle(rq, o)

GET_index ==
    /\ nreq < MaxRequests
    /\ \E p \in ProfileNames, mw \in BOOLEAN :
           Serve(p, "GET", "/", "none", mw, TRUE, TRUE, TRUE)

GET_portfolio ==
    /\ nreq < MaxRequests
    /\ \E p \in ProfileNames, mw, log \in BOOLEAN :
           Serve(p, "GET", "/portfolio", "none", mw, TRUE, log, TRUE)

GET_about ==
    /\ nreq < MaxRequests
    /\ \E p \in ProfileNames, mw, log \in BOOLEAN :
           Serve(p, "GET", "/about", "none", mw, TRUE, log, TRUE)

GET_contact ==
    /\ nreq < MaxRequests
    /\ \E p \in ProfileNames, mw, log \in BOOLEAN :
           Serve(p, "GET", "/contact", "none", mw, TRUE, log, TRUE)

\* the commit of an incomplete form raises; the outcome of the CONTACT_SUBMIT
\* insert is an input only when that insert is attempted
POST_contact ==
    /\ nreq < MaxRequests
    /\ \E p \in ProfileNames, form \in FormNames, mw, commit, log \in BOOLEAN :
           /\ ~FormComplete(Form(form)) => ~commit
           /\ ~commit => log
           /\ Serve(p, "POST", "/contact", form, mw, commit, log, TRUE)

GET_admin ==
    /\ nreq < MaxRequests
    /\ \E p \in ProfileNames, mw \in BOOLEAN :
           Serve(p, "GET", "/admin", "none", mw, TRUE, TRUE, TRUE)

GET_admin_logs ==
    /\ nreq < MaxRequests
    /\ \E p \in ProfileNames, query \in BOOLEAN :
           Serve(p, "GET", "/admin/logs", "none", TRUE, TRUE, TRUE, query)

GET_admin_stats ==
    /\ nreq < MaxRequests
    /\ \E p \in ProfileNames, mw, query \in BOOLEAN :
           Serve(p, "GET", "/admin/stats", "none", mw, TRUE, TRUE, query)

GET_admin_messages ==
    /\ nreq < MaxRequests
    /\ \E p \in ProfileNames, mw, query \in BOOLEAN :
           Serve(p, "GET", "/admin/messages", "none", mw, TRUE, TRUE, query)

GET_admin_export ==
    /\ nreq < MaxRequests
    /\ \E p \in ProfileNames, mw, query \in BOOLEAN :
           Serve(p, "GET", "/admin/export", "none", mw, TRUE, TRUE, query)

GET_static ==
    /\ nreq < MaxRequests
    /\ \E p \in ProfileNames :
           Serve(p, "GET", "/static/style.css", "none", TRUE, TRUE, TRUE, TRUE)

\* paths no rule matches: one under the static prefix, one that differs from the
\* log endpoint by a trailing slash
UnroutedPaths == {"/staticfoo", "/admin/logs/"}

GET_unrouted ==
    /\ nreq < MaxRequests
    /\ \E p \in ProfileNames, path \in UnroutedPaths, mw \in BOOLEAN :
           /\ StartsWith(path, STATIC_PREFIX) => mw
           /\ Serve(p, "GET", path, "none", mw, TRUE, TRUE, TRUE)

Next ==
    \/ GET_index
    \/ GET_portfolio
    \/ GET_about
    \/ GET_contact
    \/ POST_contact
    \/ GET_admin
    \/ GET_admin_logs
    \/ GET_admin_stats
    \/ GET_admin_messages
    \/ GET_admin_export
    \/ GET_static
    \/ GET_unrouted

Spec == Init /\ [][Next]_vars

---------------------------------------------------------------------------
(* get_client_ip on its own: every environ with a forwarded-for header of  *)
(* at most MaxHeaderLen characters                                         *)

HeaderChars == {"1", "2", ","}

Environs ==
    [HTTP_X_FORWARDED_FOR : {None} \cup {Some(s) : s \in SeqsUpTo(HeaderChars, MaxHeaderLen)},
     HTTP_X_REAL_IP : {None, Some(<<>>), Some(<<"3">>)},
     REMOTE_ADDR : {None, Some(<<>>), Some(<<"4">>)}]

ServerIdle ==
    /\ visitors = <<>>
    /\ messages = <<>>
    /\ session = [c \in Clients |-> NoSession]
    /\ uuidCount = 0
    /\ clock = 0
    /\ nreq = 0
    /\ req = NoRequest
    /\ io = Outcome(TRUE, TRUE, TRUE, TRUE)
    /\ resp = NoResponse

InitIP == ServerIdle /\ arg \in Environs /\ ret = None

CallGetClientIp ==
    /\ ret = None
    /\ ret' = Some(get_client_ip(arg))
    /\ UNCHANGED <<visitors, messages, session, uuidCount, clock, nreq, req, io, resp, arg>>

SpecIP == InitIP /\ [][CallGetClientIp]_vars

---------------------------------------------------------------------------
(* parse_user_agent on its own: None, and every concatenation of at most   *)
(* MaxTokens words of the vocabulary                                       *)

UAWords ==
    { <<"C", "h", "r", "o", "m", "e">>, <<"F", "I", "R", "E", "F", "O", "X">>,
      <<"S", "a", "f", "a", "r", "i">>, <<"E", "d", "g", "e">>,
      <<"W", "i", "n", "d", "o", "w", "s">>, <<"M", "a", "c">>,
      <<"L", "i", "n", "u", "x">>, <<"A", "n", "d", "r", "o", "i", "d">>,
      <<"i", "P", "h", "o", "n", "e">>, <<"i", "P", "a", "d">>,
      <<"M", "S", "I", "E">>, <<"C", "H", "R">>, <<"O", "M", "E">> }

UserAgents == {None} \cup {Some(Flatten(ws)) : ws \in SeqsUpTo(UAWords, MaxTokens)}

InitUA == ServerIdle /\ arg \in UserAgents /\ ret = None

CallParseUserAgent ==
    /\ ret = None
    /\ ret' = Some(parse_user_agent(arg))
    /\ UNCHANGED <<visitors, messages, session, uuidCount, clock, nreq, req, io, resp, arg>>

SpecUA == InitUA /\ [][CallParseUserAgent]_vars

---------------------------------------------------------------------------
(* Properties *)

\* a request was handled in this step
Handled == nreq' = nreq + 1

\* the Visitor rows the step added
AddedVisitors == {i \in (Len(visitors) + 1)..Len(visitors') : TRUE}

\* both tables only grow: the rows already there are untouched
TablesKept ==
    /\ Len(visitors') >= Len(visitors)
    /\ SubSeq(visitors', 1, Len(visitors)) = visitors
    /\ Len(messages') >= Len(messages)
    /\ SubSeq(messages', 1, Len(messages)) = messages

\* the path is one the middleware logs
IsLoggedPath(path) == ~StartsWith(path, "/static") /\ path # "/admin/logs"

\* an action tag that starts with CONTACT_SUBMIT:
SubmitterNames == {"ann", "bob", "None", ""}
IsSubmitTag(action) == \E n \in SubmitterNames : action = "CONTACT_SUBMIT:" \o n

IsContactSubmit(rq) == rq.method = "POST" /\ rq.path = "/contact"

\* C1: a POST /contact with name, email and message present, all of whose
\* commits succeed, adds exactly one ContactMessage row carrying the submitted
\* name, email and message and the client address, and exactly one Visitor row
\* whose action is CONTACT_SUBMIT:<name>, with page /contact.
C1_ContactSubmitAddsRows ==
    [][(/\ Handled
        /\ IsContactSubmit(req')
        /\ FormComplete(req'.form)
        /\ io'.mw /\ io'.commit /\ io'.log)
       => /\ TablesKept
          /\ Len(messages') = Len(messages) + 1
          /\ LET m == messages'[Len(messages')]
             IN  /\ m.name = Value(req'.form.name)
                 /\ m.email = Value(req'.form.email)
                 /\ m.message = Value(req'.form.message)
                 /\ m.ip_address = get_client_ip(req'.environ)
          /\ Cardinality({i \in AddedVisitors : IsSubmitTag(visitors'[i].action)}) = 1
          /\ \A i \in AddedVisitors :
                IsSubmitTag(visitors'[i].action)
                => /\ visitors'[i].action = "CONTACT_SUBMIT:" \o Value(req'.form.name)
                   /\ visitors'[i].page = "/contact"]_vars

C1_Witness ==
    /\ IsContactSubmit(req)
    /\ FormComplete(req.form)
    /\ io.mw /\ io.commit /\ io.log
    /\ resp.body.status = "success"
    /\ Len(messages) = 1
    /\ messages[1].name = "bob"
    /\ \E i \in 1..Len(visitors) : visitors[i].action = "CONTACT_SUBMIT:bob"

\* the views that call log_visitor themselves
ViewLogs(rq) ==
    \/ rq.method = "GET" /\ rq.path \in {"/portfolio", "/about", "/contact"}
    \/ IsContactSubmit(rq)

\* C2 as stated: every request on a logged path whose persistence succeeds adds
\* exactly one Visitor row.
C2_OneRowPerLoggedRequest ==
    [][(/\ Handled
        /\ IsLoggedPath(req'.path)
        /\ io'.mw /\ io'.commit /\ io'.log)
       => Len(visitors') = Len(visitors) + 1]_vars

\* C2 (amended): every request on a logged path whose persistence succeeds adds
\* one VISIT row for its path, written by the middleware, and, on /portfolio,
\* /about, GET /contact and POST /contact, one more row written by the view: the
\* Visitor table grows by two on these four routes and by one on every other.
C2_RowsPerLoggedRequest ==
    [][(/\ Handled
        /\ IsLoggedPath(req'.path)
        /\ io'.mw /\ io'.commit /\ io'.log)
       => /\ TablesKept
          /\ Len(visitors') = Len(visitors) + (IF ViewLogs(req') THEN 2 ELSE 1)
          /\ visitors'[Len(visitors) + 1].action = "VISIT"
          /\ visitors'[Len(visitors) + 1].page = req'.path
          /\ ViewLogs(req') => visitors'[Len(visitors) + 2].action # "VISIT"]_vars

C2_Witness ==
    /\ req.method = "GET" /\ req.path = "/portfolio"
    /\ io.mw /\ io.log
    /\ Len(visitors) = 2
    /\ visitors[1].action = "VISIT"
    /\ visitors[2].action = "PORTFOLIO_VIEW"

\* C3: a request for /admin/logs, or for a path under the static prefix, leaves
\* the Visitor table as it was, and two polls of /admin/logs in a row report the
\* same total.
C3_AntiLoop ==
    [][(/\ Handled
        /\ (req'.path = "/admin/logs" \/ StartsWith(req'.path, "/static")))
       => /\ visitors' = visitors
          /\ (req'.path = "/admin/logs" /\ io'.query)
             => resp'.body.total = Len(visitors)
          /\ (/\ req.path = "/admin/logs" /\ io.query
              /\ req'.path = "/admin/logs" /\ io'.query)
             => resp'.body.total = resp.body.total]_vars

C3_Witness ==
    /\ req.path = "/admin/logs"
    /\ io.query
    /\ Len(visitors) = 2
    /\ resp.body.total = 2

\* C4: a session's session_id is set by its first request and never changes;
\* every Visitor row written while a request of the session is handled carries
\* it; two sessions never have the same session_id.
C4_SessionIdStable ==
    [][Handled
       => LET c == req'.client
          IN  /\ session'[c] # NoSession
              /\ session[c] # NoSession => session'[c] = session[c]
              /\ \A d \in Clients \ {c} : session'[d] = session[d]
              /\ TablesKept
              /\ \A i \in AddedVisitors : visitors'[i].session_id = session'[c]
              /\ \A d \in Clients \ {c} : session'[d] # session'[c]]_vars

C4_Witness ==
    /\ session["c1"] # NoSession
    /\ session["c2"] # NoSession
    /\ \E i, j \in 1..Len(visitors) :
          /\ visitors[i].session_id = session["c1"]
          /\ visitors[j].session_id = session["c2"]

\* the log_visitor invocations of the step's request: the middleware's, and the
\* view's own (on POST /contact only once the ContactMessage commit succeeded)
MiddlewareLogs(rq) == IsLoggedPath(rq.path)
ViewLogAttempted(rq, o) ==
    \/ rq.method = "GET" /\ rq.path \in {"/portfolio", "/about", "/contact"}
    \/ IsContactSubmit(rq) /\ o.commit

\* an invocation of log_visitor failed to persist its row
LogFailed(rq, o) ==
    \/ MiddlewareLogs(rq) /\ ~o.mw
    \/ ViewLogAttempted(rq, o) /\ ~o.log

\* the rows the successful invocations wrote
RowsLogged(rq, o) ==
    (IF MiddlewareLogs(rq) /\ o.mw THEN 1 ELSE 0)
    + (IF ViewLogAttempted(rq, o) /\ o.log THEN 1 ELSE 0)

\* the response the step's request would have got, from the state before the
\* step, had every log_visitor invocation persisted its row
ResponseHadLoggingSucceeded ==
    CHOOSE r \in {view(st1, req', o).resp :
                    st1 \in {before_request(CurrentState, req', TRUE)},
                    o \in {[io' EXCEPT !.mw = TRUE, !.log = TRUE]}} : TRUE

\* the routes whose payload is computed from the Visitor table
ReadsVisitors(rq) ==
    rq.method = "GET" /\ rq.path \in {"/admin/stats", "/admin/export"}

\* C5 as stated: when an invocation of log_visitor fails to persist its row, that
\* invocation adds no row, the error does not reach the caller, and the response
\* is the one the request would have got had logging succeeded.
C5_LogFailureSwallowed ==
    [][(Handled /\ LogFailed(req', io'))
       => \E had \in {ResponseHadLoggingSucceeded} :
             /\ TablesKept
             /\ Len(visitors') = Len(visitors) + RowsLogged(req', io')
             /\ resp' = had]_vars

\* C5 (amended): when an invocation of log_visitor fails to persist its row, that
\* invocation adds no row and the error does not reach the caller: the response
\* has the status and the kind it would have had, a POST /contact whose commit
\* succeeded answers 'success' and keeps its ContactMessage row, and the response
\* is the one the request would have got had logging succeeded on every route
\* but /admin/stats and /admin/export, which answer from the Visitor table
\* without the row that was not written.
C5_LogFailureSwallowedButVisible ==
    [][(Handled /\ LogFailed(req', io'))
       => \E had \in {ResponseHadLoggingSucceeded} :
             /\ TablesKept
             /\ Len(visitors') = Len(visitors) + RowsLogged(req', io')
             /\ resp'.status = had.status
             /\ resp'.kind = had.kind
             /\ ~ReadsVisitors(req') => resp' = had
             /\ (IsContactSubmit(req') /\ io'.commit)
                => /\ resp'.body.status = "success"
                   /\ Len(messages') = Len(messages) + 1
             /\ (req'.path = "/admin/stats" /\ io'.query)
                => /\ resp'.body.total_visits = Len(visitors)
                   /\ had.body.total_visits = Len(visitors) + 1
             /\ (req'.path = "/admin/export" /\ io'.query)
                => /\ Len(resp'.lines) = 1 + Len(visitors)
                   /\ Len(had.lines) = 2 + Len(visitors)]_vars

C5_Witness ==
    /\ IsContactSubmit(req)
    /\ io.mw /\ io.commit /\ ~io.log
    /\ resp.body.status = "success"
    /\ Len(messages) = 1
    /\ Len(visitors) = 1
    /\ visitors[1].action = "VISIT"

\* C6: when persisting the ContactMessage row raises, POST /contact answers the
\* error payload under status 200, adds no ContactMessage row and adds no
\* Visitor row with a CONTACT_SUBMIT: tag.
C6_ContactFailureInPayload ==
    [][(Handled /\ IsContactSubmit(req') /\ ~io'.commit)
       => /\ resp'.status = 200
          /\ resp'.kind = "json"
          /\ resp'.body.status = "error"
          /\ messages' = messages
          /\ TablesKept
          /\ \A i \in AddedVisitors : ~IsSubmitTag(visitors'[i].action)]_vars

C6_Witness ==
    /\ IsContactSubmit(req)
    /\ FormComplete(req.form)
    /\ ~io.commit
    /\ io.mw
    /\ resp.body.status = "error"
    /\ messages = <<>>
    /\ Len(visitors) = 1

\* the distinct values of a column
DistinctIps == {visitors[i].ip_address : i \in 1..Len(visitors)}
DistinctSessions == {visitors[i].session_id : i \in 1..Len(visitors)}

\* C7: unique_visitors of /admin/stats and of /admin/logs is the number of
\* distinct ip_address values among the Visitor rows present when the query
\* runs; total_visits (total) is the number of Visitor rows and total_messages
\* the number of ContactMessage rows.
C7_UniqueVisitorsByIp ==
    /\ (nreq > 0 /\ req.method = "GET" /\ req.path = "/admin/stats" /\ io.query)
       => /\ resp.body.unique_visitors = Cardinality(DistinctIps)
          /\ resp.body.total_visits = Len(visitors)
          /\ resp.body.total_messages = Len(messages)
    /\ (nreq > 0 /\ req.method = "GET" /\ req.path = "/admin/logs" /\ io.query)
       => /\ resp.body.unique_visitors = Cardinality(DistinctIps)
          /\ resp.body.total = Len(visitors)

C7_Witness ==
    /\ req.path = "/admin/stats"
    /\ io.query
    /\ resp.body.unique_visitors = 2
    /\ Cardinality(DistinctSessions) = 1
    /\ resp.body.total_visits = 3

\* C8: /admin/export over an empty Visitor table answers a CSV with one empty
\* header line and no data row, not an error payload; over a non-empty table the
\* header is the field set of the first row and there is one data row per
\* Visitor row.
C8_ExportCsv ==
    (nreq > 0 /\ req.method = "GET" /\ req.path = "/admin/export" /\ io.query)
    => /\ resp.status = 200
       /\ resp.kind = "csv"
       /\ visitors = <<>> => resp.lines = << <<>> >>
       /\ visitors # <<>>
          => /\ resp.lines[1] = EXPORT_FIELDS
             /\ Len(resp.lines) = 1 + Len(visitors)
             /\ \A i \in 1..Len(visitors) :
                   \E j \in 2..Len(resp.lines) :
                       /\ Len(resp.lines[j]) = Len(EXPORT_FIELDS)
                       /\ resp.lines[j][1] = visitors[i].id
                       /\ resp.lines[j][3] = visitors[i].ip_address
                       /\ resp.lines[j][6] = visitors[i].page
                       /\ resp.lines[j][7] = visitors[i].action

C8_Witness ==
    /\ nreq > 0
    /\ req.path = "/admin/export"
    /\ io.query
    /\ visitors = <<>>
    /\ resp.kind = "csv"
    /\ resp.lines = << <<>> >>

\* r is the first comma-separated value of s: the longest prefix without a comma
IsFirstValue(r, s) ==
    /\ Len(r) <= Len(s)
    /\ \A i \in 1..Len(r) : r[i] = s[i] /\ r[i] # ","
    /\ Len(r) < Len(s) => s[Len(r) + 1] = ","

\* C9 as stated: the forwarded-for header, if present, decides (its first
\* comma-separated value); otherwise the real-IP header if present; otherwise
\* the connection address; otherwise 'Unknown'.
C9_PriorityByPresence ==
    ret # None
    => LET xff == arg.HTTP_X_FORWARDED_FOR
           real == arg.HTTP_X_REAL_IP
           remote == arg.REMOTE_ADDR
       IN  /\ xff # None => IsFirstValue(Value(ret), Value(xff))
           /\ (xff = None /\ real # None) => Value(ret) = Value(real)
           /\ (xff = None /\ real = None /\ remote # None) => Value(ret) = Value(remote)
           /\ (xff = None /\ real = None /\ remote = None) => Value(ret) = UNKNOWN_IP

\* C9 (amended): the forwarded-for header, if present and not empty, decides
\* (its first comma-separated value, whatever the other two are); otherwise the
\* real-IP header if present and not empty; otherwise the connection address if
\* present; otherwise 'Unknown'.
C9_PriorityByNonEmpty ==
    ret # None
    => LET xff == arg.HTTP_X_FORWARDED_FOR
           real == arg.HTTP_X_REAL_IP
           remote == arg.REMOTE_ADDR
           has_xff == xff # None /\ Len(Value(xff)) > 0
           has_real == real # None /\ Len(Value(real)) > 0
       IN  /\ has_xff => IsFirstValue(Value(ret), Value(xff))
           /\ (~has_xff /\ has_real) => Value(ret) = Value(real)
           /\ (~has_xff /\ ~has_real /\ remote # None) => Value(ret) = Value(remote)
           /\ (~has_xff /\ ~has_real /\ remote = None) => Value(ret) = UNKNOWN_IP

C9_Witness ==
    /\ ret = Some(<<"2">>)
    /\ arg.HTTP_X_FORWARDED_FOR = Some(<<"2", ",", "1">>)
    /\ arg.HTTP_X_REAL_IP = Some(<<"3">>)
    /\ arg.REMOTE_ADDR = Some(<<"4">>)

\* the lower-cased user agent contains the keyword
Mentions(kw) == arg # None /\ Contains(Lower(Value(arg)), kw)

\* C10: parse_user_agent returns a (browser, platform) pair by ordered,
\* case-insensitive substring tests: Chrome before Firefox before Safari before
\* Edge, else Unknown; Windows before macOS before Linux before Android before
\* iOS (iphone or ipad), else Unknown; an empty or missing user agent gives
\* (Unknown, Unknown).
C10_UserAgentClassified ==
    ret # None
    => LET r == Value(ret)
       IN  /\ DOMAIN r = {"browser", "platform"}
           /\ r.browser =
                 (CASE Mentions(kw_chrome) -> "Chrome"
                    [] ~Mentions(kw_chrome) /\ Mentions(kw_firefox) -> "Firefox"
                    [] /\ ~Mentions(kw_chrome) /\ ~Mentions(kw_firefox)
                       /\ Mentions(kw_safari) -> "Safari"
                    [] /\ ~Mentions(kw_chrome) /\ ~Mentions(kw_firefox)
                       /\ ~Mentions(kw_safari) /\ Mentions(kw_edge) -> "Edge"
                    [] OTHER -> "Unknown")
           /\ r.platform =
                 (CASE Mentions(kw_windows) -> "Windows"
                    [] ~Mentions(kw_windows) /\ Mentions(kw_mac) -> "macOS"
                    [] /\ ~Mentions(kw_windows) /\ ~Mentions(kw_mac)
                       /\ Mentions(kw_linux) -> "Linux"
                    [] /\ ~Mentions(kw_windows) /\ ~Mentions(kw_mac)
                       /\ ~Mentions(kw_linux) /\ Mentions(kw_android) -> "Android"
                    [] /\ ~Mentions(kw_windows) /\ ~Mentions(kw_mac)
                       /\ ~Mentions(kw_linux) /\ ~Mentions(kw_android)
                       /\ (Mentions(kw_iphone) \/ Mentions(kw_ipad)) -> "iOS"
                    [] OTHER -> "Unknown")
           /\ (arg = None \/ arg = Some(<<>>))
              => r = [browser |-> "Unknown", platform |-> "Unknown"]

C10_Witness ==
    /\ ret # None
    /\ Mentions(kw_chrome)
    /\ Mentions(kw_safari)
    /\ Value(ret).browser = "Chrome"

=============================================================================
